---- MODULE Spec2Model ----
(***************************************************************************)
(* MoviesStore (src/src/stores/MoviesStore.tsx): the MobX store of the     *)
(* movie client.  Every async method runs synchronously up to its remote   *)
(* request (one "call" step) and resumes when the response or the failure  *)
(* arrives (one "settle" step); JavaScript runs each of the two parts      *)
(* without interruption.  Requests in flight are kept in call order in     *)
(* pending; any of them may be answered next.                              *)
(***************************************************************************)
EXTENDS Integers, Sequences, FiniteSets, TLC

\* ------------------------------------------------------------- bounds
\* Requests that may be in flight at once.
MaxReq == 2
\* The remote API has MaxResp + 1 different list answers (the first is empty).
MaxResp == 1
\* Movie ids the watchlist methods are called with: 1..MaxMovie.
MaxMovie == 2
\* Longest local watchlist the add calls of the model may build.
MaxWatch == 2
\* Most movies in the answer to one search.
MaxResults == 3

\* ------------------------------------------------------------- state
VARIABLES
  nowPlayingMovies,    \* Movie[]
  upcomingMovies,      \* Movie[]
  popularMovies,       \* Movie[]
  watchlistMovies,     \* Movie[]
  userProfile,         \* UserProfile | null   (0 is null)
  loading,             \* {[key in MovieCategory | 'profile']: boolean}
  error,               \* {[key in MovieCategory | 'profile']: string | null}
  currentPage,         \* {[key in MovieCategory]: number}
  totalPages,          \* {[key in MovieCategory]: number}
  currentMovieDetail,  \* MovieDetail | null   (0 is null)
  pending,             \* the remote requests in flight, in call order
  ev                   \* what the last step was: the call or the settlement of a method

storeVars == <<nowPlayingMovies, upcomingMovies, popularMovies, watchlistMovies,
               userProfile, loading, error, currentPage, totalPages,
               currentMovieDetail>>
vars == <<nowPlayingMovies, upcomingMovies, popularMovies, watchlistMovies,
          userProfile, loading, error, currentPage, totalPages,
          currentMovieDetail, pending, ev>>

MovieCategory == {"now_playing", "upcoming", "popular", "search"}
LoadingKeys == MovieCategory \cup {"profile"}
MovieIds == 1..MaxMovie
\* The value of an empty error slot (null).
NoError == "<null>"

\* ------------------------------------------------------------- remote answers
\* The k-th list answer of the remote API: answer 0 has no results, answer
\* k > 0 has the k + 1 movies k+1, k, ..., 1 in that order; it is page k + 1
\* of k + 1 pages.
ResultsOf(k) == IF k = 0 THEN <<>> ELSE [i \in 1..(k + 1) |-> k + 2 - i]
MovieResponse(k) ==
  [page |-> k + 1, results |-> ResultsOf(k), total_pages |-> k + 1]
Payloads == 0..MaxResp

\* What a rejected request throws into the catch block: an axios error with a
\* message, an axios error without one (only a status), or any other error
\* (a TypeError on a body without results).
Failures ==
  { [axios |-> TRUE,  message |-> "Network Error", status |-> "undefined"],
    [axios |-> TRUE,  message |-> "",              status |-> "500"],
    [axios |-> FALSE, message |-> "results is undefined", status |-> "undefined"] }
NoFailure == [axios |-> FALSE, message |-> "", status |-> ""]

\* axios.isAxiosError(error) ? error.message || `Error ${status}` : 'Unknown error'
ErrorMessage(e) ==
  IF e.axios
    THEN IF e.message # "" THEN e.message ELSE "Error " \o e.status
    ELSE "Unknown error"

\* ------------------------------------------------------------- helpers
\* A request in flight: the method awaiting it, its category or loading key,
\* the movie id it is about, and who awaits the method ("toggle": called by
\* toggleWatchlist; "refresh": called by refreshAllMovies).  query is the
\* argument a searchMovies call keeps across its await.
Task(op, cat, id, tag) ==
  [op |-> op, cat |-> cat, id |-> id, tag |-> tag, query |-> <<>>]

RemoveAt(s, i) == [j \in 1..(Len(s) - 1) |-> IF j < i THEN s[j] ELSE s[j + 1]]

\* The step just taken.  phase "call": the synchronous part of a method ran
\* and its request is in flight; phase "settle": the method's promise resolved
\* (threw: it rejected).  id is the movie id of the call, or the number of the
\* list answer that settled a fetch.  For searchMovies, query is its argument,
\* raw the results of the remote answer and list the array it returned.
NoEvent ==
  [op |-> "init", phase |-> "settle", cat |-> "none", id |-> 0, force |-> FALSE,
   outcome |-> "none", ret |-> FALSE, clears |-> 0, threw |-> FALSE,
   refreshDone |-> FALSE, query |-> <<>>, raw |-> <<>>, list |-> <<>>]

CallEvent(op, cat, id, force) ==
  [NoEvent EXCEPT !.op = op, !.phase = "call", !.cat = cat, !.id = id,
                  !.force = force]

\* The methods whose request is awaited inside a try block with a catch that
\* returns normally: a failure of the request never leaves the method.
CatchesFailure(op) ==
  op \in {"fetchMoviesByCategory", "fetchPopularMoviesSorted", "searchMovies",
          "getMovieDetails", "fetchWatchlist", "getUserProfile",
          "addToWatchlist", "removeFromWatchlist"}

SettleEvent(op, cat, id, outcome, ret, clears) ==
  [NoEvent EXCEPT !.op = op, !.cat = cat, !.id = id, !.outcome = outcome,
                  !.ret = ret, !.clears = clears,
                  !.threw = (outcome = "failed" /\ ~CatchesFailure(op))]

Collection(c) ==
  CASE c = "now_playing" -> nowPlayingMovies
    [] c = "upcoming"    -> upcomingMovies
    [] c = "popular"     -> popularMovies
    [] OTHER             -> <<>>

Init ==
  /\ nowPlayingMovies = <<>>
  /\ upcomingMovies = <<>>
  /\ popularMovies = <<>>
  /\ watchlistMovies = <<>>
  /\ userProfile = 0
  /\ loading = [k \in LoadingKeys |-> FALSE]
  /\ error = [k \in LoadingKeys |-> NoError]
  /\ currentPage = [c \in MovieCategory |-> 1]
  /\ totalPages = [c \in MovieCategory |-> 0]
  /\ currentMovieDetail = 0
  /\ pending = <<>>
  /\ ev = NoEvent

\* The requests in flight for category (or loading key) c.
InFlight(c) == {j \in 1..Len(pending) : pending[j].cat = c}

categoryVars == <<nowPlayingMovies, upcomingMovies, popularMovies, currentPage,
                  totalPages>>
otherVars == <<watchlistMovies, userProfile, currentMovieDetail>>

\* ------------------------------------------------------------- category fetch
\* Faulty variant: the cache rule without the forceRefresh flag.
UsesCache_ignoresForce(collection, forceRefresh) == Len(collection) > 0

\* Faulty variant: a non-forced call also returns when a request is in flight.
UsesCache_singleFlight(collection, forceRefresh) ==
  (Len(collection) > 0 \/ pending # <<>>) /\ ~forceRefresh

\* The cache rule of the wrappers: `collection.length > 0 && !forceRefresh`.
UsesCache(collection, forceRefresh) == Len(collection) > 0 /\ ~forceRefresh

\* Faulty variant: every category has an endpoint.
HasEndpoint_all(category) == category \in MovieCategory

\* The switch of fetchMoviesByCategory: only two categories have an endpoint,
\* the default branch throws Error('Invalid category') inside the try block.
HasEndpoint(category) == category \in {"now_playing", "upcoming"}

\* fetchMoviesByCategory up to its await or, for a category without an
\* endpoint, through its catch block, which ends the call at once.
StartFetchMoviesByCategory(category, caller, force, tag) ==
  IF HasEndpoint(category)
    THEN /\ loading' = [loading EXCEPT ![category] = TRUE]
         /\ error' = [error EXCEPT ![category] = NoError]
         /\ pending' = Append(pending, Task("fetchMoviesByCategory", category, 0, tag))
         /\ ev' = CallEvent(caller, category, 0, force)
    ELSE /\ loading' = [loading EXCEPT ![category] = FALSE]
         /\ error' = [error EXCEPT ![category] = ErrorMessage(NoFailure)]
         /\ pending' = pending
         /\ ev' = SettleEvent("fetchMoviesByCategory", category, 0, "invalid", FALSE, 1)

fetchMoviesByCategory(category) ==
  /\ HasEndpoint(category) => Len(pending) < MaxReq
  /\ StartFetchMoviesByCategory(category, "fetchMoviesByCategory", FALSE, "none")
  /\ UNCHANGED <<categoryVars, otherVars>>

\* fetchPopularMoviesSorted up to its await.
StartFetchPopularMoviesSorted(caller, force, tag) ==
  /\ loading' = [loading EXCEPT !["popular"] = TRUE]
  /\ error' = [error EXCEPT !["popular"] = NoError]
  /\ pending' = Append(pending, Task("fetchPopularMoviesSorted", "popular", 0, tag))
  /\ ev' = CallEvent(caller, "popular", 0, force)

fetchPopularMoviesSorted ==
  /\ Len(pending) < MaxReq
  /\ StartFetchPopularMoviesSorted("fetchPopularMoviesSorted", FALSE, "none")
  /\ UNCHANGED <<categoryVars, otherVars>>

\* A wrapper that returns from the cache: nothing but the log line.
Cached(op, category, forceRefresh) ==
  /\ ev' = [SettleEvent(op, category, 0, "cached", FALSE, 0)
              EXCEPT !.force = forceRefresh]
  /\ UNCHANGED <<loading, error, pending>>

fetchNowPlayingMovies(forceRefresh) ==
  /\ IF UsesCache(nowPlayingMovies, forceRefresh)
       THEN Cached("fetchNowPlayingMovies", "now_playing", forceRefresh)
       ELSE /\ Len(pending) < MaxReq
            /\ StartFetchMoviesByCategory("now_playing", "fetchNowPlayingMovies",
                                          forceRefresh, "none")
  /\ UNCHANGED <<categoryVars, otherVars>>

fetchUpcomingMovies(forceRefresh) ==
  /\ IF UsesCache(upcomingMovies, forceRefresh)
       THEN Cached("fetchUpcomingMovies", "upcoming", forceRefresh)
       ELSE /\ Len(pending) < MaxReq
            /\ StartFetchMoviesByCategory("upcoming", "fetchUpcomingMovies",
                                          forceRefresh, "none")
  /\ UNCHANGED <<categoryVars, otherVars>>

fetchPopularMovies(forceRefresh) ==
  /\ IF UsesCache(popularMovies, forceRefresh)
       THEN Cached("fetchPopularMovies", "popular", forceRefresh)
       ELSE /\ Len(pending) < MaxReq
            /\ StartFetchPopularMoviesSorted("fetchPopularMovies", forceRefresh, "none")
  /\ UNCHANGED <<categoryVars, otherVars>>

\* Faulty variant: an answer that arrives when the category is no longer
\* loading (an overlapping fetch was answered before) is dropped.
ApplyCategoryResponse_dropsLate(category, response) ==
  /\ nowPlayingMovies' =
       IF category = "now_playing" /\ loading[category]
         THEN response.results ELSE nowPlayingMovies
  /\ upcomingMovies' =
       IF category = "upcoming" /\ loading[category]
         THEN response.results ELSE upcomingMovies
  /\ currentPage' =
       IF loading[category]
         THEN [currentPage EXCEPT ![category] = response.page] ELSE currentPage
  /\ totalPages' =
       IF loading[category]
         THEN [totalPages EXCEPT ![category] = response.total_pages]
         ELSE totalPages
  /\ loading' = [loading EXCEPT ![category] = FALSE]
  /\ UNCHANGED <<popularMovies, error>>

\* Faulty variant: one page count shared by all the categories.
ApplyCategoryResponse_sharedTotal(category, response) ==
  /\ nowPlayingMovies' =
       IF category = "now_playing" THEN response.results ELSE nowPlayingMovies
  /\ upcomingMovies' =
       IF category = "upcoming" THEN response.results ELSE upcomingMovies
  /\ currentPage' = [currentPage EXCEPT ![category] = response.page]
  /\ totalPages' = [c \in MovieCategory |-> response.total_pages]
  /\ loading' = [loading EXCEPT ![category] = FALSE]
  /\ UNCHANGED <<popularMovies, error>>

\* The success block of fetchMoviesByCategory (runInAction, lines 319-337).
ApplyCategoryResponse(category, response) ==
  /\ nowPlayingMovies' =
       IF category = "now_playing" THEN response.results ELSE nowPlayingMovies
  /\ upcomingMovies' =
       IF category = "upcoming" THEN response.results ELSE upcomingMovies
  /\ currentPage' = [currentPage EXCEPT ![category] = response.page]
  /\ totalPages' = [totalPages EXCEPT ![category] = response.total_pages]
  /\ loading' = [loading EXCEPT ![category] = FALSE]
  /\ UNCHANGED <<popularMovies, error>>

\* Faulty variant: a catch block that records the error and leaves the
\* loading flag set.
CatchCategoryError_keepsLoading(category, e) ==
  /\ error' = [error EXCEPT ![category] = ErrorMessage(e)]
  /\ UNCHANGED <<categoryVars, loading>>

\* Faulty variant: a catch block that also empties the collection of the
\* category and resets its pagination.
CatchCategoryError_clearsList(category, e) ==
  /\ loading' = [loading EXCEPT ![category] = FALSE]
  /\ error' = [error EXCEPT ![category] = ErrorMessage(e)]
  /\ nowPlayingMovies' = IF category = "now_playing" THEN <<>> ELSE nowPlayingMovies
  /\ upcomingMovies' = IF category = "upcoming" THEN <<>> ELSE upcomingMovies
  /\ currentPage' = [currentPage EXCEPT ![category] = 1]
  /\ totalPages' = [totalPages EXCEPT ![category] = 0]
  /\ UNCHANGED popularMovies

\* The catch block of fetchMoviesByCategory (lines 339-347).
CatchCategoryError(category, e) ==
  /\ loading' = [loading EXCEPT ![category] = FALSE]
  /\ error' = [error EXCEPT ![category] = ErrorMessage(e)]
  /\ UNCHANGED categoryVars

\* The success block of fetchPopularMoviesSorted (lines 203-214).
ApplySortedResponse(response) ==
  /\ popularMovies' = response.results
  /\ loading' = [loading EXCEPT !["popular"] = FALSE]
  /\ UNCHANGED <<nowPlayingMovies, upcomingMovies, currentPage, totalPages, error>>

\* The catch block of fetchPopularMoviesSorted (lines 216-223).
CatchSortedError ==
  /\ loading' = [loading EXCEPT !["popular"] = FALSE]
  /\ error' = [error EXCEPT !["popular"] = "Failed to fetch sorted movies"]
  /\ UNCHANGED categoryVars

\* Promise.all of refreshAllMovies resolves when the last of its three
\* fetches has settled.
RefreshDone(i) ==
  /\ pending[i].tag = "refresh"
  /\ \A j \in 1..Len(pending) : j # i => pending[j].tag # "refresh"

\* The answer to request i arrives and fetchMoviesByCategory resumes.
SettleFetchOk(i, k) ==
  /\ i \in 1..Len(pending)
  /\ pending[i].op = "fetchMoviesByCategory"
  /\ ApplyCategoryResponse(pending[i].cat, MovieResponse(k))
  /\ pending' = RemoveAt(pending, i)
  /\ ev' = [SettleEvent(pending[i].op, pending[i].cat, k, "ok", FALSE, 1)
              EXCEPT !.refreshDone = RefreshDone(i)]
  /\ UNCHANGED otherVars

SettleFetchFail(i, e) ==
  /\ i \in 1..Len(pending)
  /\ pending[i].op = "fetchMoviesByCategory"
  /\ CatchCategoryError(pending[i].cat, e)
  /\ pending' = RemoveAt(pending, i)
  /\ ev' = [SettleEvent(pending[i].op, pending[i].cat, 0, "failed", FALSE, 1)
              EXCEPT !.refreshDone = RefreshDone(i)]
  /\ UNCHANGED otherVars

SettleSortedOk(i, k) ==
  /\ i \in 1..Len(pending)
  /\ pending[i].op = "fetchPopularMoviesSorted"
  /\ ApplySortedResponse(MovieResponse(k))
  /\ pending' = RemoveAt(pending, i)
  /\ ev' = [SettleEvent(pending[i].op, "popular", k, "ok", FALSE, 1)
              EXCEPT !.refreshDone = RefreshDone(i)]
  /\ UNCHANGED otherVars

SettleSortedFail(i, e) ==
  /\ i \in 1..Len(pending)
  /\ pending[i].op = "fetchPopularMoviesSorted"
  /\ CatchSortedError
  /\ pending' = RemoveAt(pending, i)
  /\ ev' = [SettleEvent(pending[i].op, "popular", 0, "failed", FALSE, 1)
              EXCEPT !.refreshDone = RefreshDone(i)]
  /\ UNCHANGED otherVars

\* Faulty variant: clearing the cache also drops the recorded errors.
clearCache_dropsErrors ==
  /\ nowPlayingMovies' = <<>>
  /\ upcomingMovies' = <<>>
  /\ popularMovies' = <<>>
  /\ currentPage' = [c \in MovieCategory |-> 1]
  /\ totalPages' = [c \in MovieCategory |-> 0]
  /\ error' = [k \in LoadingKeys |-> NoError]
  /\ ev' = SettleEvent("clearCache", "none", 0, "none", FALSE, 0)
  /\ UNCHANGED <<loading, pending, otherVars>>

\* Faulty variant: clearing the cache also drops the requests in flight.
clearCache_cancels ==
  /\ nowPlayingMovies' = <<>>
  /\ upcomingMovies' = <<>>
  /\ popularMovies' = <<>>
  /\ currentPage' = [c \in MovieCategory |-> 1]
  /\ totalPages' = [c \in MovieCategory |-> 0]
  /\ pending' = <<>>
  /\ ev' = SettleEvent("clearCache", "none", 0, "none", FALSE, 0)
  /\ UNCHANGED <<loading, error, otherVars>>

\* clearCache (lines 482-494)
clearCache ==
  /\ nowPlayingMovies' = <<>>
  /\ upcomingMovies' = <<>>
  /\ popularMovies' = <<>>
  /\ currentPage' = [c \in MovieCategory |-> 1]
  /\ totalPages' = [c \in MovieCategory |-> 0]
  /\ ev' = SettleEvent("clearCache", "none", 0, "none", FALSE, 0)
  /\ UNCHANGED <<loading, error, pending, otherVars>>

SettleCategory ==
  \/ \E i \in 1..MaxReq, k \in Payloads : SettleFetchOk(i, k)
  \/ \E i \in 1..MaxReq, e \in Failures : SettleFetchFail(i, e)
  \/ \E i \in 1..MaxReq, k \in Payloads : SettleSortedOk(i, k)
  \/ \E i \in 1..MaxReq, e \in Failures : SettleSortedFail(i, e)

\* The two fetch methods called directly, for every category.
CategoryNext ==
  \/ \E c \in MovieCategory : fetchMoviesByCategory(c)
  \/ fetchPopularMoviesSorted
  \/ SettleCategory

SpecCategory == Init /\ [][CategoryNext]_vars

\* The wrappers the screens call, and clearCache.
FetchNext ==
  \/ \E f \in BOOLEAN : fetchNowPlayingMovies(f)
  \/ \E f \in BOOLEAN : fetchUpcomingMovies(f)
  \/ \E f \in BOOLEAN : fetchPopularMovies(f)
  \/ clearCache
  \/ SettleCategory

SpecFetch == Init /\ [][FetchNext]_vars

\* The wrappers called for different categories only: a category is fetched
\* when none of its requests is in flight.
DistinctNext ==
  \/ \E f \in BOOLEAN : InFlight("now_playing") = {} /\ fetchNowPlayingMovies(f)
  \/ \E f \in BOOLEAN : InFlight("upcoming") = {} /\ fetchUpcomingMovies(f)
  \/ \E f \in BOOLEAN : InFlight("popular") = {} /\ fetchPopularMovies(f)
  \/ SettleCategory

SpecDistinct == Init /\ [][DistinctNext]_vars

\* The wrappers called without forceRefresh only, overlapping freely.
NonForcedNext ==
  \/ fetchNowPlayingMovies(FALSE)
  \/ fetchUpcomingMovies(FALSE)
  \/ fetchPopularMovies(FALSE)
  \/ SettleCategory

SpecNonForced == Init /\ [][NonForcedNext]_vars

\* Fetches of one category overlapping: now_playing for fetchMoviesByCategory
\* and popular for fetchPopularMoviesSorted.
OverlapNext ==
  \/ fetchMoviesByCategory("now_playing")
  \/ fetchPopularMoviesSorted
  \/ SettleCategory

SpecOverlap == Init /\ [][OverlapNext]_vars

\* fetchMoviesByCategory called for the categories it has no endpoint for
\* (popular, search) beside fetches that make a request.
NoEndpointNext ==
  \/ \E c \in {"now_playing", "popular", "search"} : fetchMoviesByCategory(c)
  \/ fetchPopularMoviesSorted
  \/ SettleCategory

SpecNoEndpoint == Init /\ [][NoEndpointNext]_vars

\* ------------------------------------------------------------- refreshAllMovies
\* Faulty variant: the refresh calls the wrappers without forcing them.
RefreshForce_off == FALSE

\* The forceRefresh argument refreshAllMovies passes to the three wrappers.
RefreshForce == TRUE

\* The requests the three wrapper calls of refreshAllMovies make, in the
\* order of the calls.
RefreshTasks ==
  SelectSeq(<<Task("fetchMoviesByCategory", "now_playing", 0, "refresh"),
              Task("fetchMoviesByCategory", "upcoming", 0, "refresh"),
              Task("fetchPopularMoviesSorted", "popular", 0, "refresh")>>,
            LAMBDA t : ~UsesCache(Collection(t.cat), RefreshForce))

\* refreshAllMovies up to its await: the three wrappers are called one after
\* the other, each running up to its own request, before Promise.all is
\* awaited.  One refresh is in flight at a time.
refreshAllMovies ==
  /\ Len(pending) < MaxReq
  /\ \A j \in 1..Len(pending) : pending[j].tag # "refresh"
  /\ loading' = [k \in LoadingKeys |->
                   IF \E j \in 1..Len(RefreshTasks) : RefreshTasks[j].cat = k
                     THEN TRUE ELSE loading[k]]
  /\ error' = [k \in LoadingKeys |->
                 IF \E j \in 1..Len(RefreshTasks) : RefreshTasks[j].cat = k
                   THEN NoError ELSE error[k]]
  /\ pending' = pending \o RefreshTasks
  /\ ev' = [CallEvent("refreshAllMovies", "none", 0, RefreshForce)
              EXCEPT !.refreshDone = (RefreshTasks = <<>>)]
  /\ UNCHANGED <<categoryVars, otherVars>>

\* refreshAllMovies, with fetches of now_playing called beside it.
RefreshNext ==
  \/ refreshAllMovies
  \/ \E f \in BOOLEAN : fetchNowPlayingMovies(f)
  \/ \E i \in 1..(MaxReq + 2), k \in Payloads : SettleFetchOk(i, k)
  \/ \E i \in 1..(MaxReq + 2), e \in Failures : SettleFetchFail(i, e)
  \/ \E i \in 1..(MaxReq + 2), k \in Payloads : SettleSortedOk(i, k)
  \/ \E i \in 1..(MaxReq + 2), e \in Failures : SettleSortedFail(i, e)

SpecRefresh == Init /\ [][RefreshNext]_vars

\* ------------------------------------------------------------- watchlist
\* isInWatchlist(movieId): this.watchlistMovies.some(movie => movie.id === movieId)
Has(list, movieId) == \E j \in 1..Len(list) : list[j] = movieId
isInWatchlist(movieId) == Has(watchlistMovies, movieId)

\* this.watchlistMovies.filter(movie => movie.id !== movieId)
Without(list, movieId) == SelectSeq(list, LAMBDA m : m # movieId)

\* What the watchlist POST answers: a body with success true, a body whose
\* success is false or absent, or a transport / HTTP error.
PostOutcomes == {"ok", "refused", "failed"}

\* Faulty variant: addToWatchlist without its guard, posting every time.
StartAddToWatchlist_noGuard(movie, caller, tag) ==
  /\ pending' = Append(pending, Task("addToWatchlist", "none", movie, tag))
  /\ ev' = CallEvent(caller, "none", movie, FALSE)

\* addToWatchlist up to its await.  The guard of the method: a movie already
\* in the local watchlist is not added and no request is made.
StartAddToWatchlist(movie, caller, tag) ==
  IF isInWatchlist(movie)
    THEN /\ pending' = pending
         /\ ev' = SettleEvent(caller, "none", movie, "skipped", FALSE, 0)
    ELSE /\ pending' = Append(pending, Task("addToWatchlist", "none", movie, tag))
         /\ ev' = CallEvent(caller, "none", movie, FALSE)

\* removeFromWatchlist up to its await: a movie that is not found locally is
\* not removed and no request is made.
StartRemoveFromWatchlist(movieId, caller, tag) ==
  IF ~isInWatchlist(movieId)
    THEN /\ pending' = pending
         /\ ev' = SettleEvent(caller, "none", movieId, "skipped", FALSE, 0)
    ELSE /\ pending' = Append(pending,
                         Task("removeFromWatchlist", "none", movieId, tag))
         /\ ev' = CallEvent(caller, "none", movieId, FALSE)

\* The model stops adding when the calls in flight could grow the list past
\* MaxWatch.
AddsInFlight ==
  Cardinality({j \in 1..Len(pending) : pending[j].op = "addToWatchlist"})
RoomToAdd == Len(watchlistMovies) + AddsInFlight < MaxWatch

\* Faulty variant: an optimistic addToWatchlist, which appends before the
\* remote answer.
addToWatchlist_optimistic(movie) ==
  /\ ~isInWatchlist(movie)
  /\ Len(pending) < MaxReq /\ RoomToAdd
  /\ StartAddToWatchlist(movie, "addToWatchlist", "none")
  /\ watchlistMovies' = Append(watchlistMovies, movie)
  /\ UNCHANGED <<categoryVars, loading, error, userProfile, currentMovieDetail>>

addToWatchlist(movie) ==
  /\ ~isInWatchlist(movie) => (Len(pending) < MaxReq /\ RoomToAdd)
  /\ StartAddToWatchlist(movie, "addToWatchlist", "none")
  /\ UNCHANGED storeVars

removeFromWatchlist(movieId) ==
  /\ isInWatchlist(movieId) => Len(pending) < MaxReq
  /\ StartRemoveFromWatchlist(movieId, "removeFromWatchlist", "none")
  /\ UNCHANGED storeVars

toggleWatchlist(movie) ==
  /\ Len(pending) < MaxReq
  /\ IF isInWatchlist(movie)
       THEN StartRemoveFromWatchlist(movie, "toggleWatchlist", "toggle")
       ELSE RoomToAdd /\ StartAddToWatchlist(movie, "toggleWatchlist", "toggle")
  /\ UNCHANGED storeVars

\* Faulty variant: the movie is appended whatever the remote answer was.
AddResult_optimistic(list, movie, outcome) ==
  [list |-> Append(list, movie), ret |-> outcome = "ok"]

\* addToWatchlist after its await (lines 753-769): what the list becomes and
\* what the method returns.
AddResult(list, movie, outcome) ==
  IF outcome = "ok"
    THEN [list |-> Append(list, movie), ret |-> TRUE]
    ELSE [list |-> list, ret |-> FALSE]

\* Faulty variant: the movie is filtered out whatever the remote answer was.
RemoveResult_alwaysFilters(list, movieId, outcome) ==
  [list |-> Without(list, movieId), ret |-> outcome = "ok"]

\* removeFromWatchlist after its await (lines 795-811).
RemoveResult(list, movieId, outcome) ==
  IF outcome = "ok"
    THEN [list |-> Without(list, movieId), ret |-> TRUE]
    ELSE [list |-> list, ret |-> FALSE]

\* Faulty variant: toggleWatchlist returning the awaited result as it is.
ToggleReturn_raw(op, result) == result

\* What toggleWatchlist returns from the result of the method it awaited:
\* `!removed` after a removal, `added` after an addition.
ToggleReturn(op, result) == IF op = "removeFromWatchlist" THEN ~result ELSE result

\* The answer to the POST of request i arrives; the method that awaited it
\* resumes, and toggleWatchlist after it when it was the caller.
SettleWatchlistPost(i, outcome) ==
  /\ i \in 1..Len(pending)
  /\ pending[i].op \in {"addToWatchlist", "removeFromWatchlist"}
  /\ LET t == pending[i]
         r == IF t.op = "addToWatchlist"
                THEN AddResult(watchlistMovies, t.id, outcome)
                ELSE RemoveResult(watchlistMovies, t.id, outcome)
     IN /\ watchlistMovies' = r.list
        /\ ev' = IF t.tag = "toggle"
                   THEN [SettleEvent(t.op, t.op, t.id, outcome,
                                     ToggleReturn(t.op, r.ret), 0)
                           EXCEPT !.op = "toggleWatchlist"]
                   ELSE SettleEvent(t.op, t.op, t.id, outcome, r.ret, 0)
  /\ pending' = RemoveAt(pending, i)
  /\ UNCHANGED <<categoryVars, loading, error, userProfile, currentMovieDetail>>

\* What the watchlist endpoint answers: list answer k, or a body whose
\* results is not an array.
WatchlistAnswers == Payloads \cup {-1}

\* fetchWatchlist up to its await (it reuses the search loading state).
fetchWatchlist ==
  /\ Len(pending) < MaxReq
  /\ loading' = [loading EXCEPT !["search"] = TRUE]
  /\ error' = [error EXCEPT !["search"] = NoError]
  /\ pending' = Append(pending, Task("fetchWatchlist", "search", 0, "none"))
  /\ ev' = CallEvent("fetchWatchlist", "search", 0, FALSE)
  /\ UNCHANGED <<categoryVars, otherVars>>

\* What fetchWatchlist returns on success: response.data.results || []
\* (answer -1 is a body without results).
WatchlistReturn(k) == IF k >= 0 THEN MovieResponse(k).results ELSE <<>>

\* Faulty variant: the response is merged into the local list, the items it
\* lacks being kept after it.
SettleWatchlistOk_merges(i, k) ==
  /\ i \in 1..Len(pending)
  /\ pending[i].op = "fetchWatchlist"
  /\ watchlistMovies' =
       WatchlistReturn(k) \o
         SelectSeq(watchlistMovies, LAMBDA m : ~Has(WatchlistReturn(k), m))
  /\ loading' = [loading EXCEPT !["search"] = FALSE]
  /\ pending' = RemoveAt(pending, i)
  /\ ev' = [SettleEvent("fetchWatchlist", "search", k, "ok", FALSE, 1)
              EXCEPT !.list = WatchlistReturn(k)]
  /\ UNCHANGED <<categoryVars, error, userProfile, currentMovieDetail>>

\* The success block of fetchWatchlist (lines 584-607) and its return; the
\* event records the answer (id) and the list returned.
SettleWatchlistOk(i, k) ==
  /\ i \in 1..Len(pending)
  /\ pending[i].op = "fetchWatchlist"
  /\ watchlistMovies' = IF k >= 0 THEN MovieResponse(k).results ELSE <<>>
  /\ loading' = [loading EXCEPT !["search"] = FALSE]
  /\ pending' = RemoveAt(pending, i)
  /\ ev' = [SettleEvent("fetchWatchlist", "search", k, "ok", FALSE, 1)
              EXCEPT !.list = WatchlistReturn(k)]
  /\ UNCHANGED <<categoryVars, error, userProfile, currentMovieDetail>>

\* The catch block of fetchWatchlist (lines 608-622), which returns the local
\* list.
SettleWatchlistFail(i, e) ==
  /\ i \in 1..Len(pending)
  /\ pending[i].op = "fetchWatchlist"
  /\ loading' = [loading EXCEPT !["search"] = FALSE]
  /\ error' = [error EXCEPT !["search"] = ErrorMessage(e)]
  /\ pending' = RemoveAt(pending, i)
  /\ ev' = [SettleEvent("fetchWatchlist", "search", 0, "failed", FALSE, 1)
              EXCEPT !.list = watchlistMovies]
  /\ UNCHANGED <<categoryVars, otherVars>>

WatchCalls ==
  \/ \E m \in MovieIds : addToWatchlist(m)
  \/ \E m \in MovieIds : removeFromWatchlist(m)
  \/ \E m \in MovieIds : toggleWatchlist(m)
  \/ fetchWatchlist

SettleWatch ==
  \/ \E i \in 1..MaxReq, o \in PostOutcomes : SettleWatchlistPost(i, o)
  \/ \E i \in 1..MaxReq, k \in WatchlistAnswers : SettleWatchlistOk(i, k)
  \/ \E i \in 1..MaxReq, e \in Failures : SettleWatchlistFail(i, e)

\* The watchlist methods, overlapping freely.  No watchlist method reads the
\* error text, so one kind of failure stands for all here; SpecWatchSeq and
\* SpecFailures draw every kind.
WatchNext ==
  \/ WatchCalls
  \/ \E i \in 1..MaxReq, o \in PostOutcomes : SettleWatchlistPost(i, o)
  \/ \E i \in 1..MaxReq, k \in WatchlistAnswers : SettleWatchlistOk(i, k)
  \/ \E i \in 1..MaxReq, e \in {f \in Failures : ~f.axios} :
        SettleWatchlistFail(i, e)

SpecWatch == Init /\ [][WatchNext]_vars

\* addToWatchlist, removeFromWatchlist and fetchWatchlist called directly,
\* overlapping freely.
WatchMutNext ==
  \/ \E m \in MovieIds : addToWatchlist(m)
  \/ \E m \in MovieIds : removeFromWatchlist(m)
  \/ fetchWatchlist
  \/ \E i \in 1..MaxReq, o \in PostOutcomes : SettleWatchlistPost(i, o)
  \/ \E i \in 1..MaxReq, k \in WatchlistAnswers : SettleWatchlistOk(i, k)
  \/ \E i \in 1..MaxReq, e \in {f \in Failures : ~f.axios} :
        SettleWatchlistFail(i, e)

SpecWatchMut == Init /\ [][WatchMutNext]_vars

\* The watchlist methods, each called when the one before it has settled.
WatchSeqNext == (pending = <<>> /\ WatchCalls) \/ SettleWatch

SpecWatchSeq == Init /\ [][WatchSeqNext]_vars

\* fetchWatchlist called at any time, beside additions made one at a time.
WatchFetchNext ==
  \/ fetchWatchlist
  \/ \E m \in MovieIds : pending = <<>> /\ addToWatchlist(m)
  \/ SettleWatch

SpecWatchFetch == Init /\ [][WatchFetchNext]_vars

\* ------------------------------------------------------------- search, detail, profile
\* A string is its sequence of characters.  The queries searchMovies is
\* called with: "", " ", "<tab> ", "ca", " CA ", "c", "ir x", "ir  x" (two
\* spaces), "ca x", "x" and "c<tab>a".
Queries ==
  { <<>>, <<" ">>, <<"\t", " ">>, <<"c", "a">>, <<" ", "C", "A", " ">>, <<"c">>,
    <<"i", "r", " ", "x">>, <<"i", "r", " ", " ", "x">>, <<"c", "a", " ", "x">>,
    <<"x">>, <<"c", "\t", "a">> }

\* The characters String.prototype.trim removes.
WhiteSpace == {" ", "\t"}

RECURSIVE TrimStart(_)
TrimStart(q) ==
  IF q # <<>> /\ Head(q) \in WhiteSpace THEN TrimStart(Tail(q)) ELSE q

RECURSIVE TrimEnd(_)
TrimEnd(q) ==
  IF q # <<>> /\ q[Len(q)] \in WhiteSpace
    THEN TrimEnd(SubSeq(q, 1, Len(q) - 1))
    ELSE q

\* Faulty variant: the query is used as typed.
Trim_none(q) == q

\* query.trim()
Trim(q) == TrimEnd(TrimStart(q))

\* String.prototype.toLowerCase on the letters the model uses.
LowerChar(ch) ==
  CASE ch = "A" -> "a"
    [] ch = "C" -> "c"
    [] ch = "I" -> "i"
    [] ch = "M" -> "m"
    [] OTHER    -> ch
ToLowerCase(str) == [i \in 1..Len(str) |-> LowerChar(str[i])]

\* str.includes(term): the empty term is included in every string.
Includes(str, term) ==
  \E i \in 0..(Len(str) - Len(term)) : SubSeq(str, i + 1, i + Len(term)) = term

\* str.split(' '): the pieces between single spaces; two spaces in a row give
\* an empty piece, and a tab does not separate.
RECURSIVE Split(_)
Split(str) ==
  IF \A i \in 1..Len(str) : str[i] # " "
    THEN <<str>>
    ELSE LET i == CHOOSE j \in 1..Len(str) :
                    str[j] = " " /\ \A h \in 1..(j - 1) : str[h] # " "
         IN  <<SubSeq(str, 1, i - 1)>> \o Split(SubSeq(str, i + 1, Len(str)))

\* words.map(word => word.charAt(0)).join('')
RECURSIVE Initials(_)
Initials(words) ==
  IF words = <<>>
    THEN <<>>
    ELSE (IF Head(words) = <<>> THEN <<>> ELSE <<Head(words)[1]>>)
           \o Initials(Tail(words))

\* The movies the search endpoint knows: "Co Ad", "Ir Ma" (no original
\* title), "Car" and "oz" (original title "Ca") without a release date, and
\* "Ma" released on the same day as "Co Ad".  release_date is the day of the
\* release; 0 is a missing or empty date.
SearchCatalog ==
  { [id |-> 1, title |-> <<"C", "o", " ", "A", "d">>,
     original_title |-> <<"C", "o", " ", "A", "d">>, release_date |-> 3],
    [id |-> 2, title |-> <<"I", "r", " ", "M", "a">>,
     original_title |-> <<>>, release_date |-> 2],
    [id |-> 3, title |-> <<"C", "a", "r">>,
     original_title |-> <<"C", "a", "r">>, release_date |-> 0],
    [id |-> 4, title |-> <<"o", "z">>,
     original_title |-> <<"C", "a">>, release_date |-> 0],
    [id |-> 5, title |-> <<"M", "a">>,
     original_title |-> <<"M", "a">>, release_date |-> 3] }

\* response.data.results of a search: up to MaxResults different movies of the
\* catalogue in any order.
SearchResults ==
  { r \in UNION { [1..n -> SearchCatalog] : n \in 0..MaxResults } :
      \A i, j \in 1..Len(r) : r[i] = r[j] => i = j }

\* searchTerms.some(term => title.includes(term) || originalTitle.includes(term))
hasPartialMatch(movie, searchTerms) ==
  \E t \in 1..Len(searchTerms) :
    \/ Includes(ToLowerCase(movie.title), searchTerms[t])
    \/ Includes(ToLowerCase(movie.original_title), searchTerms[t])

\* Faulty variant: the first term of a query of several terms is also tried
\* as initials.
MayBeInitials_anyTerms(searchTerms, trimmedQuery) == Len(trimmedQuery) >= 2

\* searchTerms.length === 1 && trimmedQuery.length >= 2
MayBeInitials(searchTerms, trimmedQuery) ==
  Len(searchTerms) = 1 /\ Len(trimmedQuery) >= 2

\* The first letters of the words of a title, joined.
TitleInitials(title) == Initials(Split(ToLowerCase(title)))

\* hasInitialsMatch (lines 395-411)
hasInitialsMatch(movie, searchTerms, trimmedQuery) ==
  /\ MayBeInitials(searchTerms, trimmedQuery)
  /\ \/ Includes(TitleInitials(movie.title), searchTerms[1])
     \/ Includes(TitleInitials(movie.original_title), searchTerms[1])

\* response.data.results.filter(...) (lines 385-414)
filteredResults(results, query) ==
  LET trimmedQuery == Trim(query)
      searchTerms == Split(ToLowerCase(trimmedQuery))
  IN  SelectSeq(results, LAMBDA movie :
        \/ hasPartialMatch(movie, searchTerms)
        \/ hasInitialsMatch(movie, searchTerms, trimmedQuery))

\* The comparator of the sort (lines 417-421): new Date(d).getTime() grows
\* with the day d.
Compare(a, b) ==
  IF a.release_date = 0 THEN 1
  ELSE IF b.release_date = 0 THEN -1
  ELSE b.release_date - a.release_date

\* Array.prototype.sort with this comparator.  Where the comparator orders a
\* pair the same way whichever argument comes first, the result has the pair
\* in that order; where it calls the pair equal both ways the sort is stable;
\* where it contradicts itself (Compare(a, b) > 0 and Compare(b, a) > 0) the
\* order of the pair is left to the implementation of the sort.
SortOutcomes(list) ==
  LET n == Len(list)
      Perms == { p \in [1..n -> 1..n] : \A i, j \in 1..n : p[i] = p[j] => i = j }
      Allowed(p) ==
        \A i, j \in 1..n : i < j =>
          LET x == list[p[i]]
              y == list[p[j]]
          IN  /\ ~(Compare(y, x) < 0 /\ Compare(x, y) > 0)
              /\ (Compare(x, y) = 0 /\ Compare(y, x) = 0) => p[i] < p[j]
  IN  { [i \in 1..n |-> list[p[i]]] : p \in { q \in Perms : Allowed(q) } }

\* searchMovies up to its await; a query that is empty after trimming ends
\* the call at once with [].
searchMovies(query) ==
  /\ IF Trim(query) = <<>>
       THEN /\ loading' = [loading EXCEPT !["search"] = FALSE]
            /\ error' = [error EXCEPT !["search"] = NoError]
            /\ pending' = pending
            /\ ev' = [SettleEvent("searchMovies", "search", 0, "empty", FALSE, 1)
                        EXCEPT !.query = query]
       ELSE /\ Len(pending) < MaxReq
            /\ loading' = [loading EXCEPT !["search"] = TRUE]
            /\ error' = [error EXCEPT !["search"] = NoError]
            /\ pending' = Append(pending,
                 [Task("searchMovies", "search", 0, "none") EXCEPT !.query = query])
            /\ ev' = [CallEvent("searchMovies", "search", 0, FALSE)
                        EXCEPT !.query = query]
  /\ UNCHANGED <<categoryVars, otherVars>>

\* Faulty variant: the search keeps the page count of its answer under the
\* "search" category.
SettleSearchOk_cached(i, results) ==
  /\ i \in 1..Len(pending)
  /\ pending[i].op = "searchMovies"
  /\ \E sorted \in SortOutcomes(filteredResults(results, pending[i].query)) :
       ev' = [SettleEvent("searchMovies", "search", 0, "ok", FALSE, 1)
                EXCEPT !.query = pending[i].query, !.raw = results,
                       !.list = sorted]
  /\ loading' = [loading EXCEPT !["search"] = FALSE]
  /\ totalPages' = [totalPages EXCEPT !["search"] = 1]
  /\ pending' = RemoveAt(pending, i)
  /\ UNCHANGED <<nowPlayingMovies, upcomingMovies, popularMovies, currentPage,
                 error, otherVars>>

\* The success path of searchMovies (lines 385-429): results is
\* response.data.results, sorted the array the call returns.
SettleSearchOk(i, results) ==
  /\ i \in 1..Len(pending)
  /\ pending[i].op = "searchMovies"
  /\ \E sorted \in SortOutcomes(filteredResults(results, pending[i].query)) :
       ev' = [SettleEvent("searchMovies", "search", 0, "ok", FALSE, 1)
                EXCEPT !.query = pending[i].query, !.raw = results,
                       !.list = sorted]
  /\ loading' = [loading EXCEPT !["search"] = FALSE]
  /\ pending' = RemoveAt(pending, i)
  /\ UNCHANGED <<categoryVars, error, otherVars>>

\* The catch block of searchMovies (lines 430-439).
SettleSearchFail(i, e) ==
  /\ i \in 1..Len(pending)
  /\ pending[i].op = "searchMovies"
  /\ loading' = [loading EXCEPT !["search"] = FALSE]
  /\ error' = [error EXCEPT !["search"] = ErrorMessage(e)]
  /\ pending' = RemoveAt(pending, i)
  /\ ev' = [SettleEvent("searchMovies", "search", 0, "failed", FALSE, 1)
              EXCEPT !.query = pending[i].query]
  /\ UNCHANGED <<categoryVars, otherVars>>

\* getMovieDetails up to its await (it reuses the search loading state).
getMovieDetails(movieId) ==
  /\ Len(pending) < MaxReq
  /\ loading' = [loading EXCEPT !["search"] = TRUE]
  /\ error' = [error EXCEPT !["search"] = NoError]
  /\ pending' = Append(pending, Task("getMovieDetails", "search", movieId, "none"))
  /\ ev' = CallEvent("getMovieDetails", "search", movieId, FALSE)
  /\ UNCHANGED <<categoryVars, otherVars>>

\* Faulty variant: the catch block also empties the detail slot.
SettleDetailsFail_clearsDetail(i, e) ==
  /\ i \in 1..Len(pending)
  /\ pending[i].op = "getMovieDetails"
  /\ currentMovieDetail' = 0
  /\ loading' = [loading EXCEPT !["search"] = FALSE]
  /\ error' = [error EXCEPT !["search"] = ErrorMessage(e)]
  /\ pending' = RemoveAt(pending, i)
  /\ ev' = SettleEvent("getMovieDetails", "search", 0, "failed", FALSE, 1)
  /\ UNCHANGED <<categoryVars, watchlistMovies, userProfile>>

\* The success block of getMovieDetails (lines 515-521); d is the record the
\* remote API answered with, which is also what the call returns (the id of
\* the settle event; 0 is null).
SettleDetailsOk(i, d) ==
  /\ i \in 1..Len(pending)
  /\ pending[i].op = "getMovieDetails"
  /\ currentMovieDetail' = d
  /\ loading' = [loading EXCEPT !["search"] = FALSE]
  /\ pending' = RemoveAt(pending, i)
  /\ ev' = SettleEvent("getMovieDetails", "search", d, "ok", FALSE, 1)
  /\ UNCHANGED <<categoryVars, error, watchlistMovies, userProfile>>

\* The catch block of getMovieDetails (lines 522-533).
SettleDetailsFail(i, e) ==
  /\ i \in 1..Len(pending)
  /\ pending[i].op = "getMovieDetails"
  /\ loading' = [loading EXCEPT !["search"] = FALSE]
  /\ error' = [error EXCEPT !["search"] = ErrorMessage(e)]
  /\ pending' = RemoveAt(pending, i)
  /\ ev' = SettleEvent("getMovieDetails", "search", 0, "failed", FALSE, 1)
  /\ UNCHANGED <<categoryVars, otherVars>>

\* getUserProfile up to its await.
getUserProfile ==
  /\ Len(pending) < MaxReq
  /\ loading' = [loading EXCEPT !["profile"] = TRUE]
  /\ error' = [error EXCEPT !["profile"] = NoError]
  /\ pending' = Append(pending, Task("getUserProfile", "profile", 0, "none"))
  /\ ev' = CallEvent("getUserProfile", "profile", 0, FALSE)
  /\ UNCHANGED <<categoryVars, otherVars>>

\* The records the account endpoint may answer with.
Profiles == MovieIds

\* Faulty variant: a profile already loaded is kept and the answer is only
\* used to fill an empty slot.
SettleProfileOk_keepsOld(i, u) ==
  /\ i \in 1..Len(pending)
  /\ pending[i].op = "getUserProfile"
  /\ userProfile' = IF userProfile = 0 THEN u ELSE userProfile
  /\ loading' = [loading EXCEPT !["profile"] = FALSE]
  /\ pending' = RemoveAt(pending, i)
  /\ ev' = SettleEvent("getUserProfile", "profile", u, "ok", FALSE, 1)
  /\ UNCHANGED <<categoryVars, error, watchlistMovies, currentMovieDetail>>

\* The success block of getUserProfile (lines 666-672); u is the record the
\* remote API answered with, which is also what the call returns (the id of
\* the settle event; 0 is null).
SettleProfileOk(i, u) ==
  /\ i \in 1..Len(pending)
  /\ pending[i].op = "getUserProfile"
  /\ userProfile' = u
  /\ loading' = [loading EXCEPT !["profile"] = FALSE]
  /\ pending' = RemoveAt(pending, i)
  /\ ev' = SettleEvent("getUserProfile", "profile", u, "ok", FALSE, 1)
  /\ UNCHANGED <<categoryVars, error, watchlistMovies, currentMovieDetail>>

\* The catch block of getUserProfile (lines 673-684).
SettleProfileFail(i, e) ==
  /\ i \in 1..Len(pending)
  /\ pending[i].op = "getUserProfile"
  /\ loading' = [loading EXCEPT !["profile"] = FALSE]
  /\ error' = [error EXCEPT !["profile"] = ErrorMessage(e)]
  /\ pending' = RemoveAt(pending, i)
  /\ ev' = SettleEvent("getUserProfile", "profile", 0, "failed", FALSE, 1)
  /\ UNCHANGED <<categoryVars, otherVars>>

\* ------------------------------------------------------------- poster URL
\* A null posterPath; every other path is its sequence of characters.
NullPath == <<"null">>

\* The paths getPosterUrl is called with: null, "", " ", "<tab> ",
\* "/a.jpg", "a.jpg", "//a.jpg", " /a.jpg", "http://h/a", "https://h/a",
\* "ftp://h/a", "HTTP://h/a" and "httpa.jpg".
PosterPaths ==
  { NullPath, <<>>, <<" ">>, <<"\t", " ">>,
    <<"/", "a", ".", "j", "p", "g">>,
    <<"a", ".", "j", "p", "g">>,
    <<"/", "/", "a", ".", "j", "p", "g">>,
    <<" ", "/", "a", ".", "j", "p", "g">>,
    <<"h", "t", "t", "p", ":", "/", "/", "h", "/", "a">>,
    <<"h", "t", "t", "p", "s", ":", "/", "/", "h", "/", "a">>,
    <<"f", "t", "p", ":", "/", "/", "h", "/", "a">>,
    <<"H", "T", "T", "P", ":", "/", "/", "h", "/", "a">>,
    <<"h", "t", "t", "p", "a", ".", "j", "p", "g">> }

PosterSizes == {"small", "medium", "large", "original"}

\* CBConfigs.tmdb.imageBaseUrl and the placeholder, each one piece of text.
imageBaseUrl == <<"https://media.themoviedb.org/t/p">>
Placeholder == <<"https://via.placeholder.com/500x750?text=No+Image+Available">>

\* CBConfigs.tmdb.posterSize[size]
posterSize(size) ==
  CASE size = "small"    -> <<"w185">>
    [] size = "medium"   -> <<"w342">>
    [] size = "large"    -> <<"w500">>
    [] size = "original" -> <<"original">>

\* String.prototype.startsWith
StartsWith(str, prefix) ==
  /\ Len(str) >= Len(prefix)
  /\ SubSeq(str, 1, Len(prefix)) = prefix

\* The value getPosterUrl returns (lines 448-466).
PosterUrl(posterPath, size) ==
  IF posterPath = NullPath \/ posterPath = <<>> \/ Trim(posterPath) = <<>>
    THEN Placeholder
    ELSE IF StartsWith(posterPath, <<"h", "t", "t", "p">>)
      THEN posterPath
      ELSE LET path == IF StartsWith(posterPath, <<"/">>)
                         THEN posterPath
                         ELSE <<"/">> \o posterPath
           IN  imageBaseUrl \o <<"/">> \o posterSize(size) \o path

\* getPosterUrl: no request, no change of the store; the event records the
\* arguments and the URL returned.
getPosterUrl(posterPath, size) ==
  /\ ev' = [NoEvent EXCEPT !.op = "getPosterUrl", !.query = posterPath,
                           !.raw = <<size>>,
                           !.list = PosterUrl(posterPath, size)]
  /\ UNCHANGED <<storeVars, pending>>

\* getPosterUrl called with every path and size, in every state the profile
\* fetch can bring the store to.
PosterNext ==
  \/ \E p \in PosterPaths, z \in PosterSizes : getPosterUrl(p, z)
  \/ getUserProfile
  \/ \E i \in 1..MaxReq, u \in Profiles : SettleProfileOk(i, u)
  \/ \E i \in 1..MaxReq, e \in Failures : SettleProfileFail(i, e)

SpecPoster == Init /\ [][PosterNext]_vars

\* ------------------------------------------------------------- clearCache among fetches
\* clearCache called at any time between the wrappers of two categories and
\* their answers, with a profile loaded beside them.
ClearNext ==
  \/ fetchNowPlayingMovies(FALSE)
  \/ fetchPopularMovies(FALSE)
  \/ clearCache
  \/ SettleCategory
  \/ getUserProfile
  \/ \E i \in 1..MaxReq, u \in Profiles : SettleProfileOk(i, u)

SpecClear == Init /\ [][ClearNext]_vars

\* ------------------------------------------------------------- search alone
\* searchMovies called with every query, one call at a time, and answered
\* with every list of results or with a failure.
SearchNext ==
  \/ /\ pending = <<>>
     /\ \E q \in Queries : searchMovies(q)
  \/ \E i \in 1..MaxReq, r \in SearchResults : SettleSearchOk(i, r)
  \/ \E i \in 1..MaxReq, e \in Failures : SettleSearchFail(i, e)

SpecSearch == Init /\ [][SearchNext]_vars

\* ------------------------------------------------------------- search among the other calls
\* searchMovies called while the collections fill: each forced fetch and
\* fetchWatchlist starts when nothing is in flight, a search at any time.
SearchFrameNext ==
  \/ /\ pending = <<>>
     /\ \/ fetchNowPlayingMovies(TRUE)
        \/ fetchUpcomingMovies(TRUE)
        \/ fetchPopularMovies(TRUE)
        \/ fetchWatchlist
  \/ \E q \in {<<" ">>, <<"c", "a">>} : searchMovies(q)
  \/ \E i \in 1..MaxReq, k \in Payloads : SettleFetchOk(i, k)
  \/ \E i \in 1..MaxReq, k \in Payloads : SettleSortedOk(i, k)
  \/ \E i \in 1..MaxReq, k \in Payloads : SettleWatchlistOk(i, k)
  \/ \E i \in 1..MaxReq, r \in {x \in SearchResults : Len(x) <= 1} :
       SettleSearchOk(i, r)
  \/ \E i \in 1..MaxReq, e \in Failures : SettleSearchFail(i, e)

SpecSearchFrame == Init /\ [][SearchFrameNext]_vars

\* ------------------------------------------------------------- movie details, profile
\* The two fetches of a single record, getMovieDetails and getUserProfile,
\* called at any time and answered with any record or failing.
DetailsNext ==
  \/ \E m \in MovieIds : getMovieDetails(m)
  \/ getUserProfile
  \/ \E i \in 1..MaxReq, d \in MovieIds : SettleDetailsOk(i, d)
  \/ \E i \in 1..MaxReq, e \in Failures : SettleDetailsFail(i, e)
  \/ \E i \in 1..MaxReq, u \in Profiles : SettleProfileOk(i, u)
  \/ \E i \in 1..MaxReq, e \in Failures : SettleProfileFail(i, e)

SpecDetails == Init /\ [][DetailsNext]_vars

\* ------------------------------------------------------------- failures
\* Every method that makes a request, one call at a time, with every request
\* but the watchlist POST failing (a POST also succeeds, so that there is
\* something to remove).
FailuresNext ==
  \/ /\ pending = <<>>
     /\ \/ \E c \in MovieCategory : fetchMoviesByCategory(c)
        \/ fetchPopularMoviesSorted
        \/ \E q \in Queries : searchMovies(q)
        \/ \E m \in MovieIds : getMovieDetails(m)
        \/ fetchWatchlist
        \/ getUserProfile
        \/ \E m \in MovieIds : addToWatchlist(m)
        \/ \E m \in MovieIds : removeFromWatchlist(m)
  \/ \E i \in 1..MaxReq, e \in Failures : SettleFetchFail(i, e)
  \/ \E i \in 1..MaxReq, e \in Failures : SettleSortedFail(i, e)
  \/ \E i \in 1..MaxReq, e \in Failures : SettleSearchFail(i, e)
  \/ \E i \in 1..MaxReq, e \in Failures : SettleDetailsFail(i, e)
  \/ \E i \in 1..MaxReq, e \in Failures : SettleWatchlistFail(i, e)
  \/ \E i \in 1..MaxReq, e \in Failures : SettleProfileFail(i, e)
  \/ \E i \in 1..MaxReq, o \in PostOutcomes : SettleWatchlistPost(i, o)

SpecFailures == Init /\ [][FailuresNext]_vars

\* ------------------------------------------------------------- properties
FetchMethods == {"fetchMoviesByCategory", "fetchPopularMoviesSorted"}
Wrappers == {"fetchNowPlayingMovies", "fetchUpcomingMovies", "fetchPopularMovies"}
Mutations == {"addToWatchlist", "removeFromWatchlist"}

\* The step made a request: one more is in flight.
Issued == Len(pending') = Len(pending) + 1
\* The step answered a request: one fewer is in flight.
Answered == Len(pending') = Len(pending) - 1

\* C1: right after a call of fetchMoviesByCategory or fetchPopularMoviesSorted
\* has settled (on success, on failure, or without a request for a category
\* that has no endpoint) loading[category] is false and the call has cleared
\* it once; and whenever no fetch for a category is in flight, its loading
\* flag is false.
C1_LoadingCleared ==
  /\ (ev.phase = "settle" /\ ev.op \in FetchMethods)
       => (~loading[ev.cat] /\ ev.clears = 1)
  /\ \A c \in MovieCategory : InFlight(c) = {} => ~loading[c]

C1_Witness ==
  /\ ev.phase = "settle" /\ ev.op = "fetchMoviesByCategory"
  /\ ev.outcome = "failed" /\ ev.cat = "upcoming"
  /\ InFlight("upcoming") = {} /\ ~loading["upcoming"]

\* C2: a call of fetchNowPlayingMovies, fetchUpcomingMovies or
\* fetchPopularMovies makes a request for its category if and only if
\* forceRefresh is true or the category's collection is empty; when it makes
\* none, no field of the store changes.
C2_CacheRule ==
  [][ ev'.op \in Wrappers =>
        /\ Issued <=> (ev'.force \/ Collection(ev'.cat) = <<>>)
        /\ Issued => pending'[Len(pending')].cat = ev'.cat
        /\ ~Issued => UNCHANGED <<storeVars, pending>> ]_vars

C2_Witness ==
  /\ ev.op = "fetchNowPlayingMovies" /\ ev.outcome = "cached" /\ ~ev.force
  /\ nowPlayingMovies # <<>> /\ pending = <<>>

\* C3: when a fetch for now_playing, upcoming or popular succeeds, the
\* category's collection is the answer's results, in their order, and
\* currentPage and totalPages of the category are the answer's page and
\* total_pages.
C3_ResponseApplied ==
  (ev.phase = "settle" /\ ev.op \in FetchMethods /\ ev.outcome = "ok")
    => /\ Collection(ev.cat) = MovieResponse(ev.id).results
       /\ currentPage[ev.cat] = MovieResponse(ev.id).page
       /\ totalPages[ev.cat] = MovieResponse(ev.id).total_pages

\* C4: with the watchlist methods called one at a time: no id is in the
\* watchlist of the initial store; right after addToWatchlist returned true
\* the id is in the watchlist and the list is one longer; right after
\* removeFromWatchlist returned true the id is not in it and the list is one
\* shorter; an add or remove that returned false leaves the length as it was.
C4_Membership ==
  /\ \A m \in MovieIds : ~isInWatchlist(m)
  /\ [][ (ev'.phase = "settle" /\ ev'.op \in Mutations) =>
           /\ (ev'.op = "addToWatchlist" /\ ev'.ret) =>
                /\ Has(watchlistMovies', ev'.id)
                /\ Len(watchlistMovies') = Len(watchlistMovies) + 1
           /\ (ev'.op = "removeFromWatchlist" /\ ev'.ret) =>
                /\ ~Has(watchlistMovies', ev'.id)
                /\ Len(watchlistMovies') = Len(watchlistMovies) - 1
           /\ ~ev'.ret => Len(watchlistMovies') = Len(watchlistMovies) ]_vars

C4_Witness ==
  /\ ev.phase = "settle" /\ ev.op = "removeFromWatchlist" /\ ev.ret
  /\ ~isInWatchlist(ev.id) /\ watchlistMovies # <<>>

\* C5 as stated: every step that changes watchlistMovies handles a remote
\* answer (a watchlist POST answered with success, or an answer to
\* fetchWatchlist), and watchlistMovies does not change from the call of a
\* mutation until that call handles its own answer.
C5_UnchangedWhilePending ==
  [][ /\ watchlistMovies' # watchlistMovies =>
           /\ Answered
           /\ ev'.phase = "settle" /\ ev'.outcome = "ok"
           /\ ev'.op \in Mutations \cup {"toggleWatchlist", "fetchWatchlist"}
      /\ (\E j \in 1..Len(pending) :
            /\ pending[j].op \in Mutations
            /\ ~(Answered /\ pending' = RemoveAt(pending, j)))
           => watchlistMovies' = watchlistMovies ]_vars

\* C5, amended: every step that changes watchlistMovies handles a remote
\* answer (a watchlist POST answered with success, or an answer to
\* fetchWatchlist); the step that calls a method never changes it (no
\* optimistic update), so between the call of a mutation and its own answer
\* the list changes only when the answer to another call is handled.
C5_NoOptimisticUpdate ==
  [][ /\ watchlistMovies' # watchlistMovies =>
           /\ Answered
           /\ ev'.phase = "settle" /\ ev'.outcome = "ok"
           /\ ev'.op \in Mutations \cup {"toggleWatchlist", "fetchWatchlist"}
      /\ ~Answered => watchlistMovies' = watchlistMovies ]_vars

C5_Witness ==
  /\ ev.phase = "call" /\ ev.op = "addToWatchlist"
  /\ ~isInWatchlist(ev.id)
  /\ \E j \in 1..Len(pending) :
       pending[j].op = "addToWatchlist" /\ pending[j].id = ev.id

\* C6: in every reachable state, whatever the interleaving of addToWatchlist,
\* removeFromWatchlist and toggleWatchlist, no two entries of watchlistMovies
\* have the same id.
C6_NoDuplicateIds ==
  \A i, j \in 1..Len(watchlistMovies) :
    i # j => watchlistMovies[i] # watchlistMovies[j]

\* C7: with the watchlist methods called one at a time, toggleWatchlist
\* returns whether the movie is in the watchlist right after it settles,
\* whatever the remote answer; and when the remote answer is a success the
\* membership of the movie has flipped.
C7_ToggleResult ==
  [][ (ev'.phase = "settle" /\ ev'.op = "toggleWatchlist") =>
        /\ ev'.ret = Has(watchlistMovies', ev'.id)
        /\ ev'.outcome = "ok" =>
             (Has(watchlistMovies', ev'.id) # Has(watchlistMovies, ev'.id)) ]_vars

C7_Witness ==
  /\ ev.phase = "settle" /\ ev.op = "toggleWatchlist"
  /\ ev.cat = "removeFromWatchlist" /\ ev.outcome = "failed"
  /\ ev.ret /\ isInWatchlist(ev.id)

\* C8: addToWatchlist called for an id that is in watchlistMovies, and
\* removeFromWatchlist called for an id that is not, return false, make no
\* request and leave every field of the store unchanged.
C8_GuardedNoOp ==
  [][ (~Answered /\ ev'.op \in Mutations /\
       (ev'.op = "addToWatchlist" <=> isInWatchlist(ev'.id))) =>
        /\ ev'.phase = "settle" /\ ~ev'.ret
        /\ UNCHANGED <<storeVars, pending>> ]_vars

C8_Witness ==
  /\ ev.op = "addToWatchlist" /\ ev.outcome = "skipped" /\ ~ev.ret
  /\ isInWatchlist(ev.id)

\* C9: with the watchlist methods called one at a time, when the request of
\* addToWatchlist or removeFromWatchlist fails (a transport error, or an
\* answer without success) the method returns false, does not throw, and
\* watchlistMovies is what it was.
C9_FailedMutation ==
  [][ (ev'.phase = "settle" /\ ev'.op \in Mutations /\
       ev'.outcome \in {"refused", "failed"}) =>
        /\ ~ev'.ret /\ ~ev'.threw
        /\ watchlistMovies' = watchlistMovies ]_vars

C9_Witness ==
  /\ ev.phase = "settle" /\ ev.op = "removeFromWatchlist"
  /\ ev.outcome = "refused" /\ ~ev.ret /\ isInWatchlist(ev.id)

\* The error slot a method reports to; the watchlist methods share the slot
\* of the search.
ErrorSlot(e) == IF e.op \in Mutations THEN "search" ELSE e.cat

FailedSettle(e) == e.phase = "settle" /\ e.outcome \in {"refused", "failed"}

\* C10: every failure of a method of the store (category fetch, search,
\* detail fetch, watchlist fetch, profile fetch, watchlist add, watchlist
\* remove) is caught, leaves a string in the method's error slot, and the
\* method's promise resolves.
C10_EveryFailureRecorded ==
  FailedSettle(ev) => (~ev.threw /\ error[ErrorSlot(ev)] # NoError)

\* ------------------------------------------------------------- search properties
Range(seq) == {seq[i] : i \in 1..Len(seq)}

\* The place of a movie in a list that has it once.
IndexOf(seq, m) == CHOOSE i \in 1..Len(seq) : seq[i] = m

AllWhiteSpace(q) == \A i \in 1..Len(q) : q[i] \in WhiteSpace

SearchReturned == ev.op = "searchMovies" /\ ev.outcome = "ok"

\* C11: a step in which searchMovies is called with a query that has nothing
\* but white space makes no request, returns [] in that same step, and leaves
\* loading.search false.
C11_EmptyQuery ==
  [][ (ev'.op = "searchMovies" /\ AllWhiteSpace(ev'.query)) =>
        /\ pending' = pending
        /\ ev'.phase = "settle"
        /\ ev'.list = <<>>
        /\ loading'["search"] = FALSE ]_vars

C11_Witness ==
  /\ ev.op = "searchMovies" /\ ev.phase = "settle"
  /\ ev.query = <<"\t", " ">>
  /\ ev.list = <<>> /\ pending = <<>> /\ ~loading["search"]

\* The terms of a query as the words between runs of white space.
RECURSIVE Words(_)
Words(str) ==
  IF str = <<>> THEN <<>>
  ELSE IF Head(str) \in WhiteSpace THEN Words(Tail(str))
  ELSE LET n == CHOOSE k \in 1..Len(str) :
                  /\ \A h \in 1..k : str[h] \notin WhiteSpace
                  /\ k = Len(str) \/ str[k + 1] \in WhiteSpace
       IN  <<SubSeq(str, 1, n)>> \o Words(SubSeq(str, n + 1, Len(str)))

\* Some white-space-separated term of the lowercased query is a substring of
\* the lowercased title or original title.
PassesPartialMatch(m, q) ==
  \E w \in Range(Words(ToLowerCase(q))) :
    \/ Includes(ToLowerCase(m.title), w)
    \/ Includes(ToLowerCase(m.original_title), w)

\* The query is one term of two or more characters and that term is a
\* substring of the initials of the title or of the original title.
PassesInitials(m, q) ==
  LET w == Words(ToLowerCase(q))
  IN  /\ Len(w) = 1 /\ Len(w[1]) >= 2
      /\ \/ Includes(TitleInitials(m.title), w[1])
         \/ Includes(TitleInitials(m.original_title), w[1])

\* C12: the movies searchMovies returns are exactly the movies of the raw
\* response that pass the partial-match stage or the initials stage, the
\* terms of the query being its white-space-separated words.
C12_ExactFilter ==
  SearchReturned =>
    \A m \in Range(ev.raw) :
      m \in Range(ev.list) <=>
        (PassesPartialMatch(m, ev.query) \/ PassesInitials(m, ev.query))

C14_SortedByDate ==
  SearchReturned =>
    \A i, j \in 1..Len(ev.list) : i < j =>
      LET a == ev.list[i]
          b == ev.list[j]
      IN  /\ a.release_date = 0 => b.release_date = 0
          /\ (a.release_date # 0 /\ b.release_date # 0)
               => a.release_date >= b.release_date
          /\ (a.release_date = 0 /\ b.release_date = 0)
               => IndexOf(ev.raw, a) < IndexOf(ev.raw, b)

\* C15: every step of a searchMovies call (the call, its return for an empty
\* query, the handling of its answer or of its failure) leaves the four
\* collections, currentPage and totalPages as they were, and of the rest of
\* the store changes nothing but loading.search and error.search.
C15_SearchFrame ==
  [][ ev'.op = "searchMovies" =>
        /\ UNCHANGED <<nowPlayingMovies, upcomingMovies, popularMovies,
                       watchlistMovies, currentPage, totalPages>>
        /\ UNCHANGED <<userProfile, currentMovieDetail>>
        /\ \A k \in LoadingKeys \ {"search"} :
             loading'[k] = loading[k] /\ error'[k] = error[k] ]_vars

\* A search has returned movies while every collection holds movies.
C15_Witness ==
  /\ SearchReturned /\ ev.list # <<>>
  /\ nowPlayingMovies # <<>> /\ upcomingMovies # <<>> /\ popularMovies # <<>>
  /\ watchlistMovies # <<>>
  /\ currentPage["now_playing"] # 1 \/ totalPages["now_playing"] # 0

\* C16: the call of getMovieDetails makes one request, whatever the detail
\* slot holds; when its answer is handled the slot is the record of the answer
\* and that record is returned; when its failure is handled the slot is as it
\* was, error.search is a string and null is returned; handling either makes
\* no further request.
C16_MovieDetails ==
  [][ ev'.op = "getMovieDetails" =>
        /\ ev'.phase = "call" =>
             Issued /\ currentMovieDetail' = currentMovieDetail
        /\ ev'.phase = "settle" =>
             /\ Answered
             /\ ev'.outcome \in {"ok", "failed"}
             /\ ev'.outcome = "ok" =>
                  ev'.id \in MovieIds /\ currentMovieDetail' = ev'.id
             /\ ev'.outcome = "failed" =>
                  /\ currentMovieDetail' = currentMovieDetail
                  /\ error'["search"] # NoError
                  /\ ev'.id = 0 ]_vars

\* A call for the movie already in the detail slot has failed: the slot still
\* holds the movie and the error is recorded.
C16_Witness ==
  /\ ev.op = "getMovieDetails" /\ ev.outcome = "failed"
  /\ currentMovieDetail = 1
  /\ error["search"] = "Error 500"
  /\ pending = <<>>

\* C17: a step of clearCache, in whatever state it is called, leaves the three
\* category collections empty, currentPage 1 and totalPages 0 for every
\* category, and every loading and error entry as it was before the call.
C17_ClearCache ==
  [][ ev'.op = "clearCache" =>
        /\ nowPlayingMovies' = <<>> /\ upcomingMovies' = <<>>
        /\ popularMovies' = <<>>
        /\ \A c \in MovieCategory : currentPage'[c] = 1 /\ totalPages'[c] = 0
        /\ \A k \in LoadingKeys : loading'[k] = loading[k] /\ error'[k] = error[k]
    ]_vars

\* The cache was cleared while a fetch was in flight and an error recorded.
C17_Witness ==
  /\ ev.op = "clearCache"
  /\ loading["now_playing"] /\ error["upcoming"] # NoError /\ pending # <<>>
  /\ nowPlayingMovies = <<>> /\ upcomingMovies = <<>> /\ popularMovies = <<>>

\* The methods that fetch the list of a category.
CategoryFetches == FetchMethods \cup {"searchMovies"}

\* C18: in every state and for every category c, loading[c] is true only if
\* the request of a fetch for c itself is in flight; loading.search is true
\* only while the request of a searchMovies call is in flight.
C18_LoadingMeansFetching ==
  \A c \in MovieCategory :
    loading[c] =>
      \E j \in 1..Len(pending) :
        pending[j].cat = c /\ pending[j].op \in CategoryFetches

\* The categories that have a collection.
Listed == {"now_playing", "upcoming", "popular"}

\* The collection of category c after the step.
NewCollection(c) ==
  CASE c = "now_playing" -> nowPlayingMovies'
    [] c = "upcoming"    -> upcomingMovies'
    [] c = "popular"     -> popularMovies'
    [] OTHER             -> <<>>

\* C19: with fetches for different categories in flight together, a step of
\* the fetch for category A changes neither the collection, the loading flag,
\* the error slot, currentPage nor totalPages of another category B, and it
\* leaves A as its own answer determines: on success the results of the
\* answer, no error and loading false; on failure the collection and the
\* pagination as they were, an error string and loading false.
C19_Independent ==
  [][ ev'.op \in FetchMethods \cup Wrappers =>
        LET A == ev'.cat
        IN  /\ \A B \in Listed \ {A} :
                 /\ NewCollection(B) = Collection(B)
                 /\ loading'[B] = loading[B] /\ error'[B] = error[B]
                 /\ currentPage'[B] = currentPage[B]
                 /\ totalPages'[B] = totalPages[B]
            /\ ev'.outcome = "ok" =>
                 /\ NewCollection(A) = MovieResponse(ev'.id).results
                 /\ ~loading'[A] /\ error'[A] = NoError
            /\ ev'.outcome = "failed" =>
                 /\ NewCollection(A) = Collection(A)
                 /\ currentPage'[A] = currentPage[A]
                 /\ totalPages'[A] = totalPages[A]
                 /\ ~loading'[A] /\ error'[A] # NoError ]_vars

\* The fetch of now_playing has succeeded while the fetch of upcoming is still
\* in flight and an earlier failure of popular is recorded.
C19_Witness ==
  /\ ev.op = "fetchMoviesByCategory" /\ ev.cat = "now_playing"
  /\ ev.outcome = "ok"
  /\ nowPlayingMovies # <<>>
  /\ loading["upcoming"] /\ InFlight("upcoming") # {}
  /\ error["popular"] # NoError

NewRequests == SubSeq(pending', Len(pending) + 1, Len(pending'))

\* The step of the refreshAllMovies call makes exactly one request for each
\* of the three categories, whatever is cached, and does not resolve yet.
RefreshIssuesThree ==
  ev'.op = "refreshAllMovies" =>
    /\ Len(pending') = Len(pending) + 3
    /\ \A c \in Listed :
         Cardinality({j \in 1..Len(NewRequests) : NewRequests[j].cat = c}) = 1
    /\ ~ev'.refreshDone

\* The promise of refreshAllMovies resolves in the step that settles the last
\* of its three requests, not before, and does not reject.
RefreshResolvesLast ==
  /\ ev'.refreshDone =>
       /\ ev'.phase = "settle" /\ ~ev'.threw
       /\ \A j \in 1..Len(pending') : pending'[j].tag # "refresh"
  /\ (\E j \in 1..Len(pending') : pending'[j].tag = "refresh") => ~ev'.refreshDone

C22_UserProfile ==
  [][ ev'.op = "getUserProfile" =>
        /\ ev'.phase = "call" =>
              /\ Issued
              /\ loading'["profile"] /\ error'["profile"] = NoError
              /\ userProfile' = userProfile
        /\ (ev'.phase = "settle" /\ ev'.outcome = "ok") =>
              /\ Answered
              /\ ev'.id \in Profiles
              /\ userProfile' = ev'.id
              /\ ~loading'["profile"]
              /\ error' = error
              /\ ~ev'.threw
        /\ (ev'.phase = "settle" /\ ev'.outcome = "failed") =>
              /\ Answered
              /\ userProfile' = userProfile
              /\ error'["profile"] # NoError
              /\ ~loading'["profile"]
              /\ ev'.id = 0
              /\ ~ev'.threw
        /\ ev'.outcome \in {"none", "ok", "failed"} ]_vars

\* A second answer has replaced a profile loaded earlier, and a failure has
\* then left it in place.
C22_Witness ==
  /\ ev.op = "getUserProfile" /\ ev.outcome = "failed"
  /\ userProfile = 2
  /\ error["profile"] # NoError
  /\ ~loading["profile"]

\* The characters a URL scheme is made of, among those the paths use.
SchemeChars == {"a", "f", "g", "h", "j", "p", "s", "t", "H", "P", "T"}

\* The path starts with a URL scheme: letters, then a colon.
StartsWithScheme(str) ==
  \E n \in 1..(Len(str) - 1) :
    /\ \A j \in 1..n : str[j] \in SchemeChars
    /\ str[n + 1] = ":"

\* The fragment without the one slash it may start with.
Fragment(str) == IF StartsWith(str, <<"/">>) THEN Tail(str) ELSE str

\* C23: getPosterUrl returns the placeholder for a null, empty or
\* whitespace-only path, the path itself when it is a fully-qualified URL
\* (it starts with a URL scheme), and otherwise the image base, the size
\* segment and the fragment with one slash between the last two; the result
\* depends on nothing but the arguments and the store is left alone.
C23_PosterUrl ==
  [][ ev'.op = "getPosterUrl" =>
        LET path == ev'.query
            size == ev'.raw[1]
        IN  /\ storeVars' = storeVars /\ pending' = pending
            /\ ev'.list =
                 IF path = NullPath \/ AllWhiteSpace(path)
                   THEN Placeholder
                   ELSE IF StartsWithScheme(path)
                     THEN path
                     ELSE imageBaseUrl \o <<"/">> \o posterSize(size)
                            \o <<"/">> \o Fragment(path) ]_vars

\* The methods that set a loading flag before their request.
SetsLoading ==
  CategoryFetches \cup {"getMovieDetails", "fetchWatchlist", "getUserProfile"}

\* C24: whenever a request of a method that set loading[k] is in flight,
\* loading[k] is true: a call that settles does not clear the flag under
\* another call that uses the same flag.
C24_LoadingWhilePending ==
  \A j \in 1..Len(pending) :
    pending[j].op \in SetsLoading => loading[pending[j].cat]

\* C25: when no fetch for a category is in flight, error[category] is set
\* exactly when the fetch for that category that settled last failed; stated
\* for the state right after such a fetch has settled.
C25_ErrorOfLastFetch ==
  (/\ ev.phase = "settle" /\ ev.op \in FetchMethods
   /\ InFlight(ev.cat) = {})
    => (error[ev.cat] # NoError <=> ev.outcome # "ok")

C27_FetchWatchlist ==
  [][ (ev'.op = "fetchWatchlist" /\ ev'.phase = "settle") =>
        /\ (ev'.outcome = "ok" /\ ev'.id >= 0) =>
              /\ watchlistMovies' = MovieResponse(ev'.id).results
              /\ ev'.list = MovieResponse(ev'.id).results
        /\ (ev'.outcome = "ok" /\ ev'.id < 0) => watchlistMovies' = <<>>
        /\ ev'.outcome = "failed" =>
              /\ watchlistMovies' = watchlistMovies
              /\ error'["search"] # NoError
              /\ ev'.list = watchlistMovies
        /\ ev'.outcome \in {"ok", "failed"}
        /\ ~ev'.threw ]_vars

\* A failed fetch has left a list that was not empty in place and returned it.
C27_Witness ==
  /\ ev.op = "fetchWatchlist" /\ ev.outcome = "failed"
  /\ watchlistMovies # <<>> /\ ev.list = watchlistMovies
  /\ error["search"] # NoError

\* C28: a wrapper called without forceRefresh while the collection of its
\* category is empty makes a request, whether or not a fetch for the category
\* is already in flight: every such call adds one request.
C28_NoSingleFlight ==
  [][ (ev'.op \in Wrappers /\ ~ev'.force /\ Collection(ev'.cat) = <<>>) =>
        /\ ev'.phase = "call"
        /\ Issued
        /\ pending'[Len(pending')].cat = ev'.cat
        /\ SubSeq(pending', 1, Len(pending)) = pending ]_vars

\* Two calls of fetchNowPlayingMovies without forceRefresh have two requests
\* in flight, none answered yet.
C28_Witness ==
  /\ ev.op = "fetchNowPlayingMovies" /\ ev.phase = "call" /\ ~ev.force
  /\ nowPlayingMovies = <<>>
  /\ Len(pending) = 2 /\ InFlight("now_playing") = {1, 2}

C30_FailureKeepsCache ==
  [][ /\ ev'.phase = "call" => categoryVars' = categoryVars
      /\ (ev'.op \in FetchMethods /\ ev'.outcome \in {"failed", "invalid"}) =>
           /\ categoryVars' = categoryVars
           /\ error'[ev'.cat] # NoError
      /\ (ev'.op \in Wrappers /\ ~ev'.force /\ Collection(ev'.cat) # <<>>) =>
           /\ ev'.outcome = "cached"
           /\ pending' = pending
           /\ error' = error /\ loading' = loading
           /\ categoryVars' = categoryVars ]_vars

\* A forced refresh of now_playing has failed; the list and the page loaded
\* before are still there, and a call without forceRefresh has returned from
\* the cache with the error in place.
C30_Witness ==
  /\ ev.op = "fetchNowPlayingMovies" /\ ev.outcome = "cached" /\ ~ev.force
  /\ error["now_playing"] # NoError
  /\ nowPlayingMovies # <<>> /\ currentPage["now_playing"] = 2
  /\ InFlight("now_playing") = {}

====
